---- MODULE Spec2Model ----
(***************************************************************************)
(* A model of the ETF designer back end (aroralanuk/byoetf):               *)
(*   - calculateEtfPerformanceTool.execute  (lib/etfTools)                 *)
(*   - generateEtfHoldingsTool.execute      (lib/etfTools)                 *)
(*   - parseAlphaVantageResponse            (lib/etfTools)                 *)
(*   - POST                                 (app/api/chat/route.ts)        *)
(*                                                                         *)
(* Numbers.  Dates are ISO strings compared as strings by the code; they   *)
(* are modelled as the integers 1..MaxDate, whose order is the order of    *)
(* the strings.  A weight and an index value are kept in hundredths (the   *)
(* integer 3333 is the number 33.33): Number.toFixed(2) followed by        *)
(* parseFloat yields exactly such a number.  Quotients are exact           *)
(* fractions; toFixed(2) rounds the quotient to the nearest hundredth and  *)
(* takes the larger one on a tie.                                          *)
(***************************************************************************)
EXTENDS Integers, Sequences, FiniteSets, TLC

VARIABLES
    \* calculateEtfPerformanceTool.execute
    holdings,          \* parameter holdings: sequence of Holding
    priceHistories,    \* parameter priceHistories: sequence of PriceHistory
    perfPc,            \* "idle" | "called" | "returned"
    commonStartDate,   \* let commonStartDate (0: undefined)
    sortedDates,       \* let sortedDates, as left by the last assignment
    initialValues,     \* const initialValues: Map symbol -> price
    etfPerformance,    \* the etfPerformance field of the value returned
    \* generateEtfHoldingsTool.execute
    query,             \* parameter query, as the set of keywords it includes
    lines,             \* const lines = text.trim().split("\n")
    genPc,             \* "idle" | "parsing" | "parsed" | "returned"
    lineNo,            \* the position of the loop over lines
    parsed,            \* const holdings, the array the loop pushes to
    genResult,         \* the value returned: [holdings, etfName]
    \* POST
    postPc,            \* the place of the request in POST, or "idle"
    body,              \* the request body: "malformed" | "noMessages" | "ok"
    apiKey,            \* whether process.env.ALPHAVANTAGE_API_KEY is set
    mcpClient,         \* let mcpClient: "undefined" | "open" | "closed" | "closeFailed"
    mcpTools,          \* let mcpTools, by what it holds under "time_series_daily"
    allTools,          \* the keys of allTools
    response,          \* "none" | "stream" | "error500" | "rejected"
    raised,            \* the step whose exception left the normal path, or "none"
    degraded,          \* the inner failure that was caught and logged, or "none"
    closeAttempted,    \* whether mcpClient.close() was called
    etfHoldings,       \* the symbols generateEtfHoldings gave in this response
    fetchLog,          \* the symbols fetchStockHistory was executed for, in order
    inFlight,          \* the executions (positions of fetchLog) not yet settled
    \* parseAlphaVantageResponse
    avData,            \* parameter data: a JSON value
    avPc,              \* "idle" | "called" | "returned"
    avResult,          \* the Record returned: a function from ticker to prices
    avRaised           \* whether an exception left the function

perfVars == <<holdings, priceHistories, perfPc, commonStartDate, sortedDates,
              initialValues, etfPerformance>>

genVars == <<query, lines, genPc, lineNo, parsed, genResult>>

postVars == <<postPc, body, apiKey, mcpClient, mcpTools, allTools, response, raised,
              degraded, closeAttempted, etfHoldings, fetchLog, inFlight>>

avVars == <<avData, avPc, avResult, avRaised>>

vars == <<perfVars, genVars, postVars, avVars>>

----------------------------------------------------------------------------
(* Bounds of the model *)

MaxDate == 3
MaxPoints == 2
MaxWeight == 2
MaxLines == 5
MaxFetches == 3
MaxEntries == 2

Symbols == {"A", "B"}
Scale == 100

----------------------------------------------------------------------------
(* Generic helpers *)

SeqsUpTo(S, n) == UNION {[1..k -> S] : k \in 0..n}

RECURSIVE SumSet(_, _)
SumSet(f, S) ==
    IF S = {} THEN 0
    ELSE LET x == CHOOSE y \in S : TRUE IN f[x] + SumSet(f, S \ {x})

RECURSIVE ProdSet(_, _)
ProdSet(f, S) ==
    IF S = {} THEN 1
    ELSE LET x == CHOOSE y \in S : TRUE IN f[x] * ProdSet(f, S \ {x})

SetMin(S) == CHOOSE x \in S : \A y \in S : x <= y
SetMax(S) == CHOOSE x \in S : \A y \in S : x >= y

RECURSIVE GCD(_, _)
GCD(a, b) == IF b = 0 THEN a ELSE GCD(b, a % b)

\* The fraction n/d (n >= 0, d > 0) in lowest terms.
Reduce(n, d) == LET g == GCD(n, d) IN [n |-> n \div g, d |-> d \div g]

\* Number.prototype.toFixed(2) of the non-negative quotient n/d, then
\* parseFloat: the nearest hundredth, the larger one on a tie; in hundredths.
ToFixed2(n, d) ==
    LET q == Reduce(n, d) IN (2 * Scale * q.n + q.d) \div (2 * q.d)

----------------------------------------------------------------------------
(* calculateEtfPerformanceTool.execute *)

\* new Map(priceHistories.map((h) => [h.symbol, h.prices])): a later entry
\* for a symbol replaces an earlier one.
PriceMapHas(hs, sym) == \E i \in 1..Len(hs) : hs[i].symbol = sym

PriceMapGet(hs, sym) ==
    LET i == CHOOSE k \in 1..Len(hs) :
                 /\ hs[k].symbol = sym
                 /\ \A j \in (k + 1)..Len(hs) : hs[j].symbol # sym
    IN  hs[i].prices

\* allDates: every date of every history (of the array, not of the map).
AllDates(hs) ==
    UNION {{hs[i].prices[j].date : j \in 1..Len(hs[i].prices)} : i \in 1..Len(hs)}

\* Array.from(allDates): a Set iterates in insertion order, each date once.
RECURSIVE InsertionOrder(_, _, _)
InsertionOrder(hs, i, acc) ==
    IF i > Len(hs) THEN acc
    ELSE LET ps == hs[i].prices
             Seen(a, d) == \E k \in 1..Len(a) : a[k] = d
             AddAll[j \in 0..Len(ps)] ==
                 IF j = 0 THEN acc
                 ELSE IF Seen(AddAll[j - 1], ps[j].date) THEN AddAll[j - 1]
                      ELSE Append(AddAll[j - 1], ps[j].date)
         IN  InsertionOrder(hs, i + 1, AddAll[Len(ps)])

\* Array.from(allDates) left as it is: the dates in insertion order.
UnsortedDates(hs) == InsertionOrder(hs, 1, <<>>)

\* Array.from(allDates).sort(): the distinct dates, ascending.
SortedDates(hs) ==
    LET S == AllDates(hs)
    IN  [i \in 1..Cardinality(S) |->
            CHOOSE d \in S : Cardinality({e \in S : e < d}) = i - 1]

\* The body of the loop "for (const holding of holdings)" at one holding.
KeepStart(hs, h, csd) == csd

AdvanceStart(hs, h, csd) ==
    IF PriceMapHas(hs, h.symbol) /\ Len(PriceMapGet(hs, h.symbol)) > 0
    THEN LET holdingStartDate == PriceMapGet(hs, h.symbol)[1].date
         IN  IF holdingStartDate > csd THEN holdingStartDate ELSE csd
    ELSE csd

RECURSIVE CommonStartLoop(_, _, _, _)
CommonStartLoop(hold, hs, k, csd) ==
    IF k > Len(hold) THEN csd
    ELSE CommonStartLoop(hold, hs, k + 1, AdvanceStart(hs, hold[k], csd))

\* sortedDates.filter((date) => date > commonStartDate)
FilterDatesAfter(ds, csd) == SelectSeq(ds, LAMBDA d : d > csd)

\* sortedDates.filter((date) => date >= commonStartDate)
FilterDates(ds, csd) == SelectSeq(ds, LAMBDA d : d >= csd)

\* history?.find((p) => p.date === date): the first point of that date;
\* 0 stands for undefined.
Find(hs, sym, date) ==
    IF ~PriceMapHas(hs, sym) THEN 0
    ELSE LET ps == PriceMapGet(hs, sym)
             hit == {j \in 1..Len(ps) : ps[j].date = date}
         IN  IF hit = {} THEN 0 ELSE SetMin(hit)

\* initialValues taken from the last point of the first date, not the first.
InitialValuesOfLastPoint(hold, hs, d0) ==
    LET Last(sym) == SetMax({j \in 1..Len(PriceMapGet(hs, sym)) :
                                PriceMapGet(hs, sym)[j].date = d0})
        valid == {sym \in {hold[k].symbol : k \in 1..Len(hold)} :
                     /\ Find(hs, sym, d0) # 0
                     /\ PriceMapGet(hs, sym)[Last(sym)].price > 0}
    IN  [sym \in valid |-> PriceMapGet(hs, sym)[Last(sym)].price]

\* The Map initialValues after holdings.forEach: the symbols whose history
\* has a point of the first date with price > 0, each with that price.
InitialValues(hold, hs, d0) ==
    LET valid == {sym \in {hold[k].symbol : k \in 1..Len(hold)} :
                     /\ Find(hs, sym, d0) # 0
                     /\ PriceMapGet(hs, sym)[Find(hs, sym, d0)].price > 0}
    IN  [sym \in valid |-> PriceMapGet(hs, sym)[Find(hs, sym, d0)].price]

\* The inner holdings.forEach of one date.  A weight w is kept in hundredths,
\* so holding.weight / 100 is w/(100*Scale) and a holding adds
\*   indexedPrice * (holding.weight / 100) = (price * w) / (initialPrice * Scale)
\* to weightedValue, kept as the fraction wn/(wd*Scale), and w/(100*Scale)
\* to totalWeightForDate, kept as tw/(100*Scale).
ContributesAlways(hs, iv, h, date) == h.symbol \in DOMAIN iv

Contributes(hs, iv, h, date) ==
    /\ Find(hs, h.symbol, date) # 0
    /\ h.symbol \in DOMAIN iv
    /\ iv[h.symbol] > 0

RECURSIVE Accumulate(_, _, _, _, _, _)
Accumulate(hold, hs, iv, date, k, acc) ==
    IF k > Len(hold) THEN acc
    ELSE LET h == hold[k]
         IN  IF Contributes(hs, iv, h, date)
             THEN LET j == Find(hs, h.symbol, date)
                      price == IF j = 0 THEN 0 ELSE PriceMapGet(hs, h.symbol)[j].price
                      initialPrice == iv[h.symbol]
                      sum == Reduce(acc.wn * initialPrice + price * h.weight * acc.wd,
                                    acc.wd * initialPrice)
                  IN  Accumulate(hold, hs, iv, date, k + 1,
                                 [wn |-> sum.n, wd |-> sum.d, tw |-> acc.tw + h.weight])
             ELSE Accumulate(hold, hs, iv, date, k + 1, acc)

\* finalValue, rounded: the value of the point of one date, in hundredths.
DateValue(hold, hs, iv, date) ==
    LET acc == Accumulate(hold, hs, iv, date, 1, [wn |-> 0, wd |-> 1, tw |-> 0])
    IN  IF acc.tw > 0
        THEN \* weightedValue / totalWeightForDate
             \*   = (wn / (wd * Scale)) / (tw / (100 * Scale))
             ToFixed2(acc.wn * 100, acc.wd * acc.tw)
        ELSE 100 * Scale

Series(hold, hs, iv, ds) ==
    [n \in 1..Len(ds) |-> [date |-> ds[n], value |-> DateValue(hold, hs, iv, ds[n])]]

\* if (priceHistories.length === 0 || holdings.length === 0) return []
PerfReturnEmpty ==
    /\ perfPc = "called"
    /\ (Len(priceHistories) = 0 \/ Len(holdings) = 0)
    /\ etfPerformance' = <<>>
    /\ perfPc' = "returned"
    /\ UNCHANGED <<holdings, priceHistories, commonStartDate, sortedDates, initialValues>>
    /\ UNCHANGED <<genVars, postVars, avVars>>

\* The try block, to its return.
PerfCalculate ==
    /\ perfPc = "called"
    /\ ~(Len(priceHistories) = 0 \/ Len(holdings) = 0)
    /\ LET all == SortedDates(priceHistories)
       IN  IF all = <<>>
           THEN \* "No dates found in price histories."
                /\ sortedDates' = all
                /\ commonStartDate' = 0
                /\ initialValues' = << >>
                /\ etfPerformance' = <<>>
           ELSE LET csd == CommonStartLoop(holdings, priceHistories, 1, all[1])
                    ds == FilterDates(all, csd)
                IN  /\ sortedDates' = ds
                    /\ commonStartDate' = csd
                    /\ IF ds = <<>>
                       THEN \* "No common dates found for calculation after filtering."
                            /\ initialValues' = << >>
                            /\ etfPerformance' = <<>>
                       ELSE LET iv == InitialValues(holdings, priceHistories, ds[1])
                            IN  /\ initialValues' = iv
                                /\ etfPerformance' = Series(holdings, priceHistories, iv, ds)
    /\ perfPc' = "returned"
    /\ UNCHANGED <<holdings, priceHistories, genVars, postVars, avVars>>

----------------------------------------------------------------------------
(* generateEtfName *)

\* query.toLowerCase().includes(k): a query is modelled by the set of the
\* keywords it includes.
Includes(q, k) == k \in q

GenerateEtfName(q) ==
    LET focus == IF Includes(q, "pharma") THEN "PHARMA"
                 ELSE IF Includes(q, "tech") THEN "TECH"
                 ELSE IF Includes(q, "energy") THEN "ENERGY"
                 ELSE IF Includes(q, "finance") THEN "FINANCE"
                 ELSE "GENERAL"
        prefix == IF Includes(q, "non-us") THEN "NON-US"
                  ELSE IF Includes(q, "europe") THEN "EU"
                  ELSE IF Includes(q, "asia") THEN "ASIA"
                  ELSE IF Includes(q, "emerging") THEN "EM"
                  ELSE "GLOBAL"
    IN  \* `${prefix}-${focus} ETF`, as the sequence of its pieces
        <<prefix, "-", focus, " ETF">>

----------------------------------------------------------------------------
(* generateEtfHoldingsTool.execute.  A line is a sequence of characters. *)

Upper == {"A", "B", "C", "D", "E", "F", "G", "H", "I", "J", "K", "L", "M",
          "N", "O", "P", "Q", "R", "S", "T", "U", "V", "W", "X", "Y", "Z"}
DigitValue == [c \in {"0", "1", "2", "3", "4", "5", "6", "7", "8", "9"} |->
                  CASE c = "0" -> 0 [] c = "1" -> 1 [] c = "2" -> 2 [] c = "3" -> 3
                    [] c = "4" -> 4 [] c = "5" -> 5 [] c = "6" -> 6 [] c = "7" -> 7
                    [] c = "8" -> 8 [] c = "9" -> 9]
Digits == DOMAIN DigitValue                    \* \d
SymbolChars == Upper \cup Digits \cup {".", "-"}   \* [A-Z0-9\.\-]
Spaces == {" ", "\t"}                          \* \s

\* String.prototype.trim()
Trim(s) ==
    LET keep == {i \in 1..Len(s) : s[i] \notin Spaces}
    IN  IF keep = {} THEN <<>> ELSE SubSeq(s, SetMin(keep), SetMax(keep))

\* The end of the longest run of characters of Class that starts at i
\* (i - 1: the run is empty): a greedy quantifier.
RunEnd(s, i, Class) ==
    LET stop == {j \in i..Len(s) : s[j] \notin Class}
    IN  IF stop = {} THEN Len(s) ELSE SetMin(stop) - 1

\* holdingRegex = /([A-Z0-9\.\-]+):\s*(\d+(?:\.\d+)?)\s*%?/ tried at position
\* i: the symbol run taken greedily must be followed by ':' (a shorter run is
\* followed by a symbol character, never by ':'), then spaces, then digits;
\* the fraction is taken when '.' and a digit follow; \s*%? always matches.
MatchAt(s, i) ==
    /\ s[i] \in SymbolChars
    /\ LET e == RunEnd(s, i, SymbolChars)
           j == RunEnd(s, e + 2, Spaces) + 1
       IN  /\ e + 1 <= Len(s) /\ s[e + 1] = ":"
           /\ j <= Len(s) /\ s[j] \in Digits

\* parseFloat of digits and an optional fraction, in hundredths; digits after
\* the second decimal, which no line of Lines has, are dropped.
RECURSIVE DigitsValue(_)
DigitsValue(ds) ==
    IF ds = <<>> THEN 0
    ELSE 10 * DigitsValue(SubSeq(ds, 1, Len(ds) - 1)) + DigitValue[ds[Len(ds)]]

ParseFloat(int, frac) ==
    LET f2 == SubSeq(frac \o <<"0", "0">>, 1, 2)
    IN  DigitsValue(int) * Scale + DigitsValue(f2)

\* line.match(holdingRegex): the leftmost match, or matched |-> FALSE (null).
Match(s) ==
    LET starts == {i \in 1..Len(s) : MatchAt(s, i)}
    IN  IF starts = {} THEN [matched |-> FALSE]
        ELSE LET i == SetMin(starts)
                 e == RunEnd(s, i, SymbolChars)
                 j == RunEnd(s, e + 2, Spaces) + 1
                 k == RunEnd(s, j, Digits)
                 hasFrac == /\ k + 2 <= Len(s) /\ s[k + 1] = "." /\ s[k + 2] \in Digits
                 m == IF hasFrac THEN RunEnd(s, k + 2, Digits) ELSE k
             IN  [matched |-> TRUE,
                  symbol |-> SubSeq(s, i, e),          \* match[1]
                  int |-> SubSeq(s, j, k),             \* match[2], integer part
                  frac |-> IF hasFrac THEN SubSeq(s, k + 2, m) ELSE <<>>]

\* One iteration of "for (const line of lines)": the array after it.
ParseLine(hs, line) ==
    LET match == Match(Trim(line))
    IN  IF match.matched
        THEN \* toUpperCase() changes no character the pattern lets through
             Append(hs, [symbol |-> match.symbol, name |-> match.symbol,
                         weight |-> ParseFloat(match.int, match.frac)])
        ELSE hs

TotalWeightOf(hs) == SumSet([i \in 1..Len(hs) |-> hs[i].weight], 1..Len(hs))

\* parseFloat(((h.weight / totalWeight) * 100).toFixed(2))
NormalizeWeightTruncated(w, totalWeight) == (w * 100 * Scale) \div totalWeight

NormalizeWeight(w, totalWeight) == ToFixed2(w * 100, totalWeight)

NormalizedHoldings(hs) ==
    LET totalWeight == TotalWeightOf(hs)
    IN  IF totalWeight > 0
        THEN [i \in 1..Len(hs) |->
                 [hs[i] EXCEPT !.weight = NormalizeWeight(hs[i].weight, totalWeight)]]
        ELSE hs

\* generateEtfName(query) + "-EMPTY"
UnmarkedName(q) == GenerateEtfName(q)

EmptyName(q) == GenerateEtfName(q) \o <<"-EMPTY">>

GenParseLine ==
    /\ genPc = "parsing"
    /\ lineNo <= Len(lines)
    /\ parsed' = ParseLine(parsed, lines[lineNo])
    /\ lineNo' = lineNo + 1
    /\ UNCHANGED <<query, lines, genPc, genResult, perfVars, postVars, avVars>>

\* if (holdings.length === 0) return {holdings: [], etfName: ... + "-EMPTY"}
GenReturnEmpty ==
    /\ genPc = "parsing"
    /\ lineNo > Len(lines)
    /\ Len(parsed) = 0
    /\ genResult' = [holdings |-> <<>>, etfName |-> EmptyName(query)]
    /\ genPc' = "returned"
    /\ UNCHANGED <<query, lines, lineNo, parsed, perfVars, postVars, avVars>>

\* Normalize weights to sum to 100, and return.
GenReturnNormalized ==
    /\ genPc = "parsing"
    /\ lineNo > Len(lines)
    /\ Len(parsed) # 0
    /\ genResult' = [holdings |-> NormalizedHoldings(parsed),
                     etfName |-> GenerateEtfName(query)]
    /\ genPc' = "returned"
    /\ UNCHANGED <<query, lines, lineNo, parsed, perfVars, postVars, avVars>>

----------------------------------------------------------------------------
(* POST.  The streamed response runs the tools as the language model asks
   for them, after POST has returned: the model may ask for several tool
   calls in one step and in any order, and the handler of fetchStockHistory
   takes no lock, so an execution starts whenever it is asked for. *)

LocalTools == {"generateEtfHoldings", "calculateEtfPerformance"}

\* const { messages } = await req.json(), before the try block: a body that
\* is not JSON rejects, and nothing in POST catches it.
PostReadBodyRejects ==
    /\ postPc = "json"
    /\ body = "malformed"
    /\ raised' = "json"
    /\ response' = "rejected"
    /\ postPc' = "done"
    /\ UNCHANGED <<body, apiKey, mcpClient, mcpTools, allTools, degraded,
                   closeAttempted, etfHoldings, fetchLog, inFlight, perfVars, genVars, avVars>>

PostReadBody ==
    /\ postPc = "json"
    /\ body # "malformed"
    /\ postPc' = "setup"
    /\ UNCHANGED <<body, apiKey, mcpClient, mcpTools, allTools, response, raised, degraded,
                   closeAttempted, etfHoldings, fetchLog, inFlight, perfVars, genVars, avVars>>

\* if (!apiKey) console.warn(...)
PostNoApiKey ==
    /\ postPc = "setup"
    /\ ~apiKey
    /\ degraded' = "noApiKey"
    /\ postPc' = "tools"
    /\ UNCHANGED <<body, apiKey, mcpClient, mcpTools, allTools, response, raised,
                   closeAttempted, etfHoldings, fetchLog, inFlight, perfVars, genVars, avVars>>

\* mcpClient = await experimental_createMCPClient(...)
PostCreateClient ==
    /\ postPc = "setup"
    /\ apiKey
    /\ mcpClient' = "open"
    /\ postPc' = "tools"
    /\ UNCHANGED <<body, apiKey, mcpTools, allTools, response, raised, degraded,
                   closeAttempted, etfHoldings, fetchLog, inFlight, perfVars, genVars, avVars>>

\* catch (mcpError) { mcpClient = undefined }
PostCreateClientFails ==
    /\ postPc = "setup"
    /\ apiKey
    /\ mcpClient' = "undefined"
    /\ degraded' = "createFailed"
    /\ postPc' = "tools"
    /\ UNCHANGED <<body, apiKey, mcpTools, allTools, response, raised,
                   closeAttempted, etfHoldings, fetchLog, inFlight, perfVars, genVars, avVars>>

\* if (mcpClient) is false: mcpTools stays {}
PostNoClient ==
    /\ postPc = "tools"
    /\ mcpClient # "open"
    /\ postPc' = "define"
    /\ UNCHANGED <<body, apiKey, mcpClient, mcpTools, allTools, response, raised, degraded,
                   closeAttempted, etfHoldings, fetchLog, inFlight, perfVars, genVars, avVars>>

\* mcpTools = await mcpClient.tools(...): the server lists no
\* time_series_daily, one that cannot be executed, or an executable one.
PostListTools ==
    /\ postPc = "tools"
    /\ mcpClient = "open"
    /\ \E listed \in {"absent", "notExecutable", "executable"} :
          /\ mcpTools' = listed
          /\ degraded' = IF listed = "executable" THEN degraded ELSE listed
    /\ postPc' = "define"
    /\ UNCHANGED <<body, apiKey, mcpClient, allTools, response, raised,
                   closeAttempted, etfHoldings, fetchLog, inFlight, perfVars, genVars, avVars>>

\* The rejection of mcpClient.tools(), were it not caught where it is raised.
PostListToolsFailsUncaught ==
    /\ postPc = "tools"
    /\ mcpClient = "open"
    /\ raised' = "tools"
    /\ postPc' = "catch"
    /\ UNCHANGED <<body, apiKey, mcpClient, mcpTools, allTools, response, degraded,
                   closeAttempted, etfHoldings, fetchLog, inFlight, perfVars, genVars, avVars>>

\* catch (mcpToolError) { mcpTools = {} }
PostListToolsFails ==
    /\ postPc = "tools"
    /\ mcpClient = "open"
    /\ mcpTools' = "absent"
    /\ degraded' = "listFailed"
    /\ postPc' = "define"
    /\ UNCHANGED <<body, apiKey, mcpClient, allTools, response, raised,
                   closeAttempted, etfHoldings, fetchLog, inFlight, perfVars, genVars, avVars>>

\* if (mcpTimeSeriesTool && typeof mcpTimeSeriesTool.execute === "function")
\*   allTools.fetchStockHistory = tool({...})
ToolsGiven(listed) ==
    IF listed = "executable" THEN LocalTools \cup {"fetchStockHistory"} ELSE LocalTools

PostDefineTools ==
    /\ postPc = "define"
    /\ allTools' = ToolsGiven(mcpTools)
    /\ postPc' = "streamText"
    /\ UNCHANGED <<body, apiKey, mcpClient, mcpTools, response, raised, degraded,
                   closeAttempted, etfHoldings, fetchLog, inFlight, perfVars, genVars, avVars>>

\* const resultStream = await streamText({...});
\* return resultStream.toDataStreamResponse(): mcpClient is left as it is.
PostStreamText ==
    /\ postPc = "streamText"
    /\ body = "ok"
    /\ response' = "stream"
    /\ postPc' = "streaming"
    /\ UNCHANGED <<body, apiKey, mcpClient, mcpTools, allTools, raised, degraded,
                   closeAttempted, etfHoldings, fetchLog, inFlight, perfVars, genVars, avVars>>

\* The prompt reads messages[messages.length - 1], a TypeError when the body
\* has no messages; streamText itself may throw as well.
PostStreamTextThrows ==
    /\ postPc = "streamText"
    /\ raised' = "streamText"
    /\ postPc' = "catch"
    /\ UNCHANGED <<body, apiKey, mcpClient, mcpTools, allTools, response, degraded,
                   closeAttempted, etfHoldings, fetchLog, inFlight, perfVars, genVars, avVars>>

\* catch (error): close the client if there is one (an exception of close()
\* is caught and logged), then answer 500.
PostCatch ==
    /\ postPc = "catch"
    /\ IF mcpClient = "open"
       THEN /\ closeAttempted' = TRUE
            /\ mcpClient' \in {"closed", "closeFailed"}
       ELSE UNCHANGED <<closeAttempted, mcpClient>>
    /\ response' = "error500"
    /\ postPc' = "done"
    /\ UNCHANGED <<body, apiKey, mcpTools, allTools, raised, degraded,
                   etfHoldings, fetchLog, inFlight, perfVars, genVars, avVars>>

\* The model calls generateEtfHoldings: the symbols of the holdings, in order.
StreamGenerateHoldings ==
    /\ postPc = "streaming"
    /\ etfHoldings = <<>>
    /\ etfHoldings' \in {<<"A", "B">>, <<"B", "A">>}
    /\ UNCHANGED <<postPc, body, apiKey, mcpClient, mcpTools, allTools, response, raised,
                   degraded, closeAttempted, fetchLog, inFlight, perfVars, genVars, avVars>>

\* fetchStockHistory.execute starts: await mcpTimeSeriesTool.execute(...)
FetchStart(sym) ==
    /\ postPc = "streaming"
    /\ "fetchStockHistory" \in allTools
    /\ etfHoldings # <<>>
    /\ Len(fetchLog) < MaxFetches
    /\ fetchLog' = Append(fetchLog, sym)
    /\ inFlight' = inFlight \cup {Len(fetchLog) + 1}
    /\ UNCHANGED <<postPc, body, apiKey, mcpClient, mcpTools, allTools, response, raised,
                   degraded, closeAttempted, etfHoldings, perfVars, genVars, avVars>>

\* return result, or throw new Error("Failed to fetch stock history.")
FetchSettle(id) ==
    /\ postPc = "streaming"
    /\ id \in inFlight
    /\ inFlight' = inFlight \ {id}
    /\ UNCHANGED <<postPc, body, apiKey, mcpClient, mcpTools, allTools, response, raised,
                   degraded, closeAttempted, etfHoldings, fetchLog, perfVars, genVars, avVars>>

\* The streamed response completes; nothing closes mcpClient.
StreamFinish ==
    /\ postPc = "streaming"
    /\ inFlight = {}
    /\ postPc' = "done"
    /\ UNCHANGED <<body, apiKey, mcpClient, mcpTools, allTools, response, raised, degraded,
                   closeAttempted, etfHoldings, fetchLog, inFlight, perfVars, genVars, avVars>>

----------------------------------------------------------------------------
(* parseAlphaVantageResponse.  The argument is a JSON value: a record with a
   field kind, a string with its characters, a number in hundredths, an
   object with its entries (key and value) in insertion order.  An object
   whose keys are dates has the kind "dated" and its entries (date and
   value) in the field days. *)

Undefined == [kind |-> "undefined"]
Null == [kind |-> "null"]
True == [kind |-> "true"]
EmptyArray == [kind |-> "array"]
NaN == [kind |-> "NaN"]
Str(chars) == [kind |-> "string", text |-> chars]
Num(n) == [kind |-> "number", num |-> n]
Obj(entries) == [kind |-> "object", entries |-> entries]
Dated(days) == [kind |-> "dated", days |-> days]

\* ToBoolean(v)
Truthy(v) ==
    /\ v.kind \notin {"undefined", "null", "NaN"}
    /\ v.kind = "string" => v.text # <<>>
    /\ v.kind = "number" => v.num # 0

\* typeof v === "object"
TypeofObject(v) == v.kind \in {"null", "array", "object", "dated"}

\* v[key] of a value that is neither null nor undefined.
Get(v, key) ==
    IF v.kind = "object" /\ \E i \in 1..Len(v.entries) : v.entries[i].key = key
    THEN v.entries[CHOOSE i \in 1..Len(v.entries) : v.entries[i].key = key].value
    ELSE Undefined

\* A computed property name { [ticker]: ... }: ToPropertyKey of a string or true.
PropertyKey(v) == IF v.kind = "string" THEN v.text ELSE <<"t", "r", "u", "e">>

\* const ticker = metaData && metaData["2. Symbol"] ? metaData["2. Symbol"] : "UNKNOWN"
TickerAlwaysUnknown(data) == <<"U", "N", "K", "N", "O", "W", "N">>

Ticker(data) ==
    LET metaData == Get(data, "Meta Data")
    IN  IF Truthy(metaData) /\ Truthy(Get(metaData, "2. Symbol"))
        THEN PropertyKey(Get(metaData, "2. Symbol"))
        ELSE <<"U", "N", "K", "N", "O", "W", "N">>

\* parseFloat(v): of a string, the number its longest numeric prefix denotes
\* after leading white space (digits, then an optional fraction); of a number,
\* that number; of anything else, and of a string without such a prefix, NaN.
ParseFloatOf(v) ==
    IF v.kind = "number" THEN v
    ELSE IF v.kind # "string" THEN NaN
    ELSE LET t == v.text
             i == RunEnd(t, 1, Spaces) + 1
             k == RunEnd(t, i, Digits)
             hasFrac == k + 1 <= Len(t) /\ t[k + 1] = "."
             m == IF hasFrac THEN RunEnd(t, k + 2, Digits) ELSE k
         IN  IF k < i THEN NaN
             ELSE Num(ParseFloat(SubSeq(t, i, k),
                                 IF hasFrac THEN SubSeq(t, k + 2, m) ELSE <<>>))

\* dayData["1. open"] throws a TypeError when dayData is null.
DayThrows(dayData) == dayData.kind \in {"null", "undefined"}

\* The record pushed for one date.
PriceRecord(date, dayData) ==
    [date |-> date,
     open |-> ParseFloatOf(Get(dayData, "1. open")),
     high |-> ParseFloatOf(Get(dayData, "2. high")),
     low |-> ParseFloatOf(Get(dayData, "3. low")),
     close |-> ParseFloatOf(Get(dayData, "4. close")),
     volume |-> ParseFloatOf(Get(dayData, "5. volume"))]

\* for (const date in timeSeriesData): the own keys in insertion order (every
\* key of a parsed JSON object is an own property); an array without elements
\* has none.
OwnEntries(timeSeriesData) ==
    IF timeSeriesData.kind = "dated" THEN timeSeriesData.days ELSE <<>>

PricesPushed(timeSeriesData) ==
    LET es == OwnEntries(timeSeriesData)
    IN  [i \in 1..Len(es) |-> PriceRecord(es[i].date, es[i].value)]

\* prices.sort((a, b) => a.date.localeCompare(b.date)): the keys of an object
\* are distinct, so the order is the order of the dates.
SortByDate(prices) ==
    [i \in 1..Len(prices) |->
        prices[CHOOSE j \in 1..Len(prices) :
                  Cardinality({k \in 1..Len(prices) : prices[k].date < prices[j].date}) = i - 1]]

\* { [ticker]: prices }
Keyed(ticker, prices) == [t \in {ticker} |-> prices]

\* if (!data || typeof data !== "object") return {}
AvReturnInvalid ==
    /\ avPc = "called"
    /\ (~Truthy(avData) \/ ~TypeofObject(avData))
    /\ avResult' = << >>
    /\ avPc' = "returned"
    /\ UNCHANGED <<avData, avRaised, perfVars, genVars, postVars>>

\* if (!timeSeriesData || typeof timeSeriesData !== "object") return { [ticker]: [] }
AvReturnNoSeries ==
    /\ avPc = "called"
    /\ ~(~Truthy(avData) \/ ~TypeofObject(avData))
    /\ LET timeSeriesData == Get(avData, "Time Series (Daily)")
       IN  /\ (~Truthy(timeSeriesData) \/ ~TypeofObject(timeSeriesData))
           /\ avResult' = Keyed(Ticker(avData), <<>>)
    /\ avPc' = "returned"
    /\ UNCHANGED <<avData, avRaised, perfVars, genVars, postVars>>

\* The loop, the sort and return { [ticker]: prices }.
AvReturnPrices ==
    /\ avPc = "called"
    /\ ~(~Truthy(avData) \/ ~TypeofObject(avData))
    /\ LET timeSeriesData == Get(avData, "Time Series (Daily)")
           es == OwnEntries(timeSeriesData)
       IN  /\ ~(~Truthy(timeSeriesData) \/ ~TypeofObject(timeSeriesData))
           /\ \A i \in 1..Len(es) : ~DayThrows(es[i].value)
           /\ avResult' = Keyed(Ticker(avData), SortByDate(PricesPushed(timeSeriesData)))
    /\ avPc' = "returned"
    /\ UNCHANGED <<avData, avRaised, perfVars, genVars, postVars>>

\* The TypeError of the loop leaves the function instead of being caught.
AvCatchRethrows ==
    /\ avPc = "called"
    /\ ~(~Truthy(avData) \/ ~TypeofObject(avData))
    /\ LET timeSeriesData == Get(avData, "Time Series (Daily)")
           es == OwnEntries(timeSeriesData)
       IN  /\ ~(~Truthy(timeSeriesData) \/ ~TypeofObject(timeSeriesData))
           /\ \E i \in 1..Len(es) : DayThrows(es[i].value)
    /\ avRaised' = TRUE
    /\ avPc' = "returned"
    /\ UNCHANGED <<avData, avResult, perfVars, genVars, postVars>>

\* catch (error) { return {} }: a date whose entry is null throws in the loop.
AvCatch ==
    /\ avPc = "called"
    /\ ~(~Truthy(avData) \/ ~TypeofObject(avData))
    /\ LET timeSeriesData == Get(avData, "Time Series (Daily)")
           es == OwnEntries(timeSeriesData)
       IN  /\ ~(~Truthy(timeSeriesData) \/ ~TypeofObject(timeSeriesData))
           /\ \E i \in 1..Len(es) : DayThrows(es[i].value)
    /\ avResult' = << >>
    /\ avPc' = "returned"
    /\ UNCHANGED <<avData, avRaised, perfVars, genVars, postVars>>

----------------------------------------------------------------------------
(* The arguments of a call of calculateEtfPerformance *)

PerfIdle ==
    /\ holdings = <<>> /\ priceHistories = <<>> /\ perfPc = "idle"
    /\ commonStartDate = 0 /\ sortedDates = <<>> /\ initialValues = << >>
    /\ etfPerformance = <<>>

GenIdle ==
    /\ query = {} /\ lines = <<>> /\ genPc = "idle" /\ lineNo = 0
    /\ parsed = <<>> /\ genResult = [holdings |-> <<>>, etfName |-> <<>>]

PostIdle ==
    /\ postPc = "idle" /\ body = "ok" /\ apiKey = FALSE /\ mcpClient = "undefined"
    /\ mcpTools = "absent" /\ allTools = {} /\ response = "none" /\ raised = "none"
    /\ degraded = "none" /\ closeAttempted = FALSE /\ etfHoldings = <<>>
    /\ fetchLog = <<>> /\ inFlight = {}

AvIdle == avData = Undefined /\ avPc = "idle" /\ avResult = << >> /\ avRaised = FALSE

PerfCalled ==
    /\ perfPc = "called"
    /\ commonStartDate = 0
    /\ sortedDates = <<>>
    /\ initialValues = << >>
    /\ etfPerformance = <<>>

HoldingsOver(weights) ==
    SeqsUpTo({[symbol |-> s, name |-> s, weight |-> w] : s \in Symbols, w \in weights},
             Cardinality(Symbols))

\* Any histories, in any order, of points in any order: the date logic does
\* not read a price or a weight, which are fixed here.
InitDates ==
    /\ priceHistories \in
           SeqsUpTo([symbol : Symbols,
                     prices : SeqsUpTo([date : 1..MaxDate, price : {1}], MaxPoints)],
                    Cardinality(Symbols))
    /\ holdings \in HoldingsOver({1 * Scale})
    /\ PerfCalled
    /\ GenIdle
    /\ PostIdle
    /\ AvIdle

\* Histories of up to two points over two dates, at most one per symbol, with
\* prices 0 (no valid initial price), 1 and 2, and weights 0..MaxWeight.
ValueDates == {1, 2}
Prices == {0, 1, 2}

ValueHistories(sym) ==
    [symbol : {sym},
     prices : SeqsUpTo([date : ValueDates, price : Prices], Cardinality(ValueDates))]

InitValues ==
    /\ priceHistories \in
           {<<>>} \cup {<<h>> : h \in ValueHistories("A") \cup ValueHistories("B")}
                  \cup {<<a, b>> : a \in ValueHistories("A"), b \in ValueHistories("B")}
    /\ holdings \in HoldingsOver({w * Scale : w \in 0..MaxWeight})
    /\ PerfCalled
    /\ GenIdle
    /\ PostIdle
    /\ AvIdle

----------------------------------------------------------------------------
(* The argument of a call of parseAlphaVantageResponse *)

\* The values the provider's "2. Symbol" may hold.
SymbolValues == {Undefined, Null, True, Str(<<>>), Str(<<"A">>), Str(<<"B">>)}

\* The "Meta Data" block: missing, a scalar, an array or an object.
MetaValues ==
    {Undefined, Null, Str(<<"A">>), EmptyArray}
        \cup {Obj(<<>>)}
        \cup {Obj(<<[key |-> "2. Symbol", value |-> v]>>) :
                 v \in SymbolValues \ {Undefined}}

DayObject(open, high, low, close, volume) ==
    Obj(<<[key |-> "1. open", value |-> open], [key |-> "2. high", value |-> high],
          [key |-> "3. low", value |-> low], [key |-> "4. close", value |-> close],
          [key |-> "5. volume", value |-> volume]>>)

\* The entry of one date: null, a scalar, an object without fields, the
\* provider's strings, numbers, and a close that is no number.
DayValues ==
    { Null,
      Num(5 * Scale),
      Obj(<<>>),
      DayObject(Str(<<"1", ".", "5", "0", "0", "0">>), Str(<<"2">>), Str(<<"1", ".">>),
                Str(<<" ", "1", ".", "7", "5">>), Str(<<"1", "0", "0">>)),
      DayObject(Num(150), Num(200), Num(100), Num(175), Num(100 * Scale)),
      DayObject(Str(<<"1">>), Str(<<"1">>), Str(<<"1">>), Str(<<"N", "/", "A">>), Null) }

\* The "Time Series (Daily)" block: missing, a scalar, an array, or an object
\* of up to MaxEntries dates in any order of insertion.
SeriesValues ==
    {Undefined, Null, Str(<<"A">>), Num(0), EmptyArray}
        \cup {Dated(es) : es \in {e \in SeqsUpTo([date : 1..MaxDate, value : DayValues],
                                                MaxEntries) :
                                     \A i, j \in 1..Len(e) : e[i].date = e[j].date => i = j}}

DataObject(meta, series) ==
    Obj(SelectSeq(<<[key |-> "Meta Data", value |-> meta],
                    [key |-> "Time Series (Daily)", value |-> series]>>,
                  LAMBDA e : e.value.kind # "undefined"))

AvInputs ==
    {Undefined, Null, Str(<<>>), Str(<<"A">>), Num(0), Num(Scale), True, EmptyArray}
        \cup {DataObject(m, s) : m \in MetaValues, s \in SeriesValues}

InitParse ==
    /\ avData \in AvInputs
    /\ avPc = "called"
    /\ avResult = << >>
    /\ avRaised = FALSE
    /\ PerfIdle
    /\ GenIdle
    /\ PostIdle

----------------------------------------------------------------------------
(* The completion text a call of generateEtfHoldings gets back, split into
   lines, and its query *)

Queries == {{}, {"tech", "pharma", "asia", "europe"}}

Lines ==
    { <<"A", ":", "1">>,
      <<"B", ":", " ", "3", "%">>,
      <<"C", ":", "0">>,
      <<"-", " ", "D", ".", "X", ":", "1", ".", "5", " ", "%">>,
      <<"e", "t", "f", ":", " ", "2", "%">> }

InitHoldings ==
    /\ query \in Queries
    /\ lines \in UNION {[1..n -> Lines] : n \in 1..MaxLines}
    /\ genPc = "parsing"
    /\ lineNo = 1
    /\ parsed = <<>>
    /\ genResult = [holdings |-> <<>>, etfName |-> <<>>]
    /\ PerfIdle
    /\ PostIdle
    /\ AvIdle

\* A request arrives at POST.
Init ==
    /\ postPc = "json"
    /\ body \in {"malformed", "noMessages", "ok"}
    /\ apiKey \in BOOLEAN
    /\ mcpClient = "undefined"
    /\ mcpTools = "absent"
    /\ allTools = {}
    /\ response = "none"
    /\ raised = "none"
    /\ degraded = "none"
    /\ closeAttempted = FALSE
    /\ etfHoldings = <<>>
    /\ fetchLog = <<>>
    /\ inFlight = {}
    /\ PerfIdle
    /\ GenIdle
    /\ AvIdle

Next ==
    \/ PostReadBodyRejects
    \/ PostReadBody
    \/ PostNoApiKey
    \/ PostCreateClient
    \/ PostCreateClientFails
    \/ PostNoClient
    \/ PostListTools
    \/ PostListToolsFails
    \/ PostDefineTools
    \/ PostStreamText
    \/ PostStreamTextThrows
    \/ PostCatch
    \/ StreamGenerateHoldings
    \/ \E sym \in Symbols : FetchStart(sym)
    \/ \E id \in 1..MaxFetches : FetchSettle(id)
    \/ StreamFinish

Spec == Init /\ [][Next]_vars

SpecDates == InitDates /\ [][PerfReturnEmpty \/ PerfCalculate]_vars

SpecValues == InitValues /\ [][PerfReturnEmpty \/ PerfCalculate]_vars

SpecHoldings ==
    InitHoldings /\ [][GenParseLine \/ GenReturnEmpty \/ GenReturnNormalized]_vars

SpecParse ==
    InitParse
        /\ [][AvReturnInvalid \/ AvReturnNoSeries \/ AvReturnPrices \/ AvCatch]_vars

----------------------------------------------------------------------------
(* Properties of POST *)

RequestEnded == postPc = "done"

\* C1: no request ends with its connection still open: a client that was
\* opened is closed when the streamed response has completed, and when the
\* handler has caught an exception.
C1_ConnectionClosedOnEveryExit ==
    RequestEnded => mcpClient # "open"

\* C2: whatever step raises, the exception does not leave POST: the request
\* is answered with status 500 and the fixed body, after an attempt to close
\* the client if there is one.
C2_EveryExceptionAnswered500 ==
    (RequestEnded /\ raised # "none")
        => /\ response = "error500"
           /\ mcpClient # "undefined" => closeAttempted

\* C3: an unavailable price lookup (no API key, client creation failed,
\* listing failed, no executable time_series_daily) raises nothing: the tool
\* set holds the two local tools and no fetchStockHistory, and the request is
\* answered with the streamed response, the 500 answer being left to a failure
\* of the start of the streamed completion itself.  fetchStockHistory is in
\* the tool set exactly when an executable time_series_daily was listed.
C3_UnavailableLookupDegrades ==
    /\ raised \in {"none", "json", "streamText"}
    /\ allTools # {} =>
          /\ LocalTools \subseteq allTools
          /\ "fetchStockHistory" \in allTools <=> mcpTools = "executable"
          /\ degraded # "none" <=> mcpTools # "executable"
    /\ (RequestEnded /\ degraded # "none") =>
          /\ allTools = LocalTools
          /\ IF raised = "none" THEN response = "stream" ELSE response = "error500"
          /\ body = "ok" => (response = "stream" <=> raised = "none")

\* C3 witness: listing the tools failed, and the request ended with the
\* streamed response and the two local tools.
C3_Witness ==
    /\ RequestEnded /\ degraded = "listFailed"
    /\ response = "stream" /\ allTools = LocalTools

\* Whether the executions started so far follow the order of the holdings.
RECURSIVE IsPrefix(_, _)
IsPrefix(s, t) ==
    \/ s = <<>>
    \/ /\ t # <<>> /\ Head(s) = Head(t) /\ IsPrefix(Tail(s), Tail(t))

\* C4: no two executions of fetchStockHistory are in flight at the same time
\* (stated of the requests whose fetches start in holdings order).
C4_FetchesOneAtATime ==
    IsPrefix(fetchLog, etfHoldings) => Cardinality(inFlight) <= 1

----------------------------------------------------------------------------
(* Properties of generateEtfHoldings *)

GenReturned == genPc = "returned"

\* A line holds the pattern SYMBOL ':' spaces digits somewhere.
Parsable(s) ==
    \E i, e, j \in 1..Len(s) :
        /\ i <= e /\ e + 1 < j
        /\ \A k \in i..e : s[k] \in SymbolChars
        /\ s[e + 1] = ":"
        /\ \A k \in (e + 2)..(j - 1) : s[k] \in Spaces
        /\ s[j] \in Digits

ReturnedWeightSum ==
    SumSet([i \in 1..Len(genResult.holdings) |-> genResult.holdings[i].weight],
           1..Len(genResult.holdings))

Abs(x) == IF x < 0 THEN -x ELSE x

\* C5 as claimed: with a positive total parsed weight the returned weights sum
\* to 100 within 0.01, for any number of holdings.
C5_WeightsSumWithinOneCent ==
    (GenReturned /\ TotalWeightOf(parsed) > 0)
        => Abs(ReturnedWeightSum - 100 * Scale) <= 1

\* C5 as amended: with a positive total parsed weight each returned weight is
\* weight/total*100 rounded to two decimals, so the returned weights sum to
\* 100 within 0.005 times the number of holdings.
C5_WeightsSumWithinHalfCentEach ==
    (GenReturned /\ TotalWeightOf(parsed) > 0)
        => 2 * Abs(ReturnedWeightSum - 100 * Scale) <= Len(genResult.holdings)

\* C5 witness: five holdings of weights 1, 1, 1, 1 and 3 come back as four
\* times 14.29 and 42.86, which sum to 100.02.
C5_Witness ==
    /\ GenReturned /\ Len(genResult.holdings) = 5
    /\ TotalWeightOf(parsed) = 7 * Scale
    /\ ReturnedWeightSum = 100 * Scale + 2

HasEmptySuffix(name) == name # <<>> /\ name[Len(name)] = "-EMPTY"

\* C10: a text with no parsable line gives an empty holdings list and the name
\* of the query with the suffix "-EMPTY"; the name ends in "-EMPTY" only when
\* the holdings list returned is empty.
C10_EmptyResultIsMarked ==
    GenReturned =>
        /\ (\A i \in 1..Len(lines) : ~Parsable(lines[i])) =>
              /\ genResult.holdings = <<>>
              /\ genResult.etfName = GenerateEtfName(query) \o <<"-EMPTY">>
        /\ HasEmptySuffix(genResult.etfName) => genResult.holdings = <<>>

\* C10 witness: two lines, neither parsable, and the marked empty result.
C10_Witness ==
    /\ GenReturned /\ Len(lines) = 2
    /\ \A i \in 1..Len(lines) : ~Parsable(lines[i])
    /\ genResult.holdings = <<>>
    /\ genResult.etfName = <<"EU", "-", "PHARMA", " ETF", "-EMPTY">>

----------------------------------------------------------------------------
(* Properties of calculateEtfPerformance *)

PerfReturned == perfPc = "returned"

\* The history the lookup gives for the symbol of holding k; <<>> if none.
HistoryOf(k) ==
    IF PriceMapHas(priceHistories, holdings[k].symbol)
    THEN PriceMapGet(priceHistories, holdings[k].symbol)
    ELSE <<>>

HoldingsWithData == {k \in 1..Len(holdings) : Len(HistoryOf(k)) > 0}

DateOrdered(ps) == \A i, j \in 1..Len(ps) : i < j => ps[i].date <= ps[j].date

AllDateOrdered ==
    \A i \in 1..Len(priceHistories) : DateOrdered(priceHistories[i].prices)

OneHistoryPerSymbol ==
    \A i, j \in 1..Len(priceHistories) :
        i # j => priceHistories[i].symbol # priceHistories[j].symbol

HasPointOn(k, d) == \E j \in 1..Len(HistoryOf(k)) : HistoryOf(k)[j].date = d

\* The latest of the first recorded dates of the holdings with data, or the
\* minimum date of all histories when no holding has data.
ExpectedStart ==
    IF HoldingsWithData # {}
    THEN SetMax({HistoryOf(k)[1].date : k \in HoldingsWithData})
    ELSE SetMin(AllDates(priceHistories))

C6_WitnessNoData ==
    /\ PerfReturned /\ AllDateOrdered /\ holdings # <<>> /\ HoldingsWithData = {}
    /\ etfPerformance # <<>>
    /\ etfPerformance[1].date = SetMin(AllDates(priceHistories))

\* The dates on which every holding with data has a recorded price.
CommonDates ==
    {d \in AllDates(priceHistories) : \A k \in HoldingsWithData : HasPointOn(k, d)}

\* C7: the common start date is a date on which every holding with data has
\* a recorded price, and it is the earliest such date (stated for well-formed
\* input that has such a date: date-ordered histories, one per symbol).
C7_CommonStartHasPriceForAll ==
    (/\ PerfReturned /\ AllDateOrdered /\ OneHistoryPerSymbol
     /\ CommonDates # {} /\ etfPerformance # <<>>)
        => /\ commonStartDate = etfPerformance[1].date
           /\ commonStartDate \in CommonDates
           /\ \A d \in CommonDates : commonStartDate <= d

\* C9: the dates of the returned series are strictly ascending (so each
\* distinct date appears once), whatever the order of the input.
C9_SeriesDatesAscending ==
    PerfReturned =>
        \A i, j \in 1..Len(etfPerformance) :
            i < j => etfPerformance[i].date < etfPerformance[j].date

\* C9 witness: two histories that share a date, one of them not in date
\* order, and a series of at least two points.
C9_Witness ==
    /\ PerfReturned /\ Len(etfPerformance) >= 2
    /\ ~AllDateOrdered
    /\ \E i, j \in 1..Len(priceHistories) :
          /\ i < j
          /\ \E a \in 1..Len(priceHistories[i].prices), b \in 1..Len(priceHistories[j].prices) :
                priceHistories[i].prices[a].date = priceHistories[j].prices[b].date

\* The price of the first point of date d in the history of holding k
\* (-1: the history has no point of that date).
FirstPriceOn(k, d) ==
    LET ps == HistoryOf(k)
        hit == {j \in 1..Len(ps) : ps[j].date = d}
    IN  IF hit = {} THEN -1
        ELSE ps[CHOOSE j \in hit : \A i \in hit : j <= i].price

\* The holdings that count on date d: a recorded initial price > 0 on the
\* first date of the series and a price point on d.
CountingOn(d) ==
    {k \in 1..Len(holdings) :
        /\ FirstPriceOn(k, etfPerformance[1].date) > 0
        /\ FirstPriceOn(k, d) >= 0}

\* value (in hundredths) is the weighted average over the holdings K of
\* price/initialPrice*100 on date d, rounded to two decimals: with
\*   average = 100 * (SUM w*p/ip) / (SUM w) = 100 * N / (P * W),
\* P the product of the initial prices, |value/Scale - average| <= 0.005.
IsRoundedAverage(value, K, d) ==
    LET d0 == etfPerformance[1].date
        ip == [k \in K |-> FirstPriceOn(k, d0)]
        P == ProdSet(ip, K)
        W == SumSet([k \in K |-> holdings[k].weight], K)
        N == SumSet([k \in K |-> holdings[k].weight * FirstPriceOn(k, d) * (P \div ip[k])], K)
        diff == value * P * W - 100 * Scale * N
    IN  /\ 2 * diff <= P * W
        /\ -2 * diff <= P * W

TotalWeight(K) == SumSet([k \in K |-> holdings[k].weight], K)

\* C8: the value of every point of the series is the weighted average of
\* price/initialPrice*100 over exactly the holdings with a valid initial price
\* and a price point on that date, rounded to two decimals, and exactly 100
\* when no holding counts or the counting weight is not positive.
C8_ValueIsWeightedAverage ==
    PerfReturned =>
        \A n \in 1..Len(etfPerformance) :
            LET d == etfPerformance[n].date
                K == CountingOn(d)
            IN  IF TotalWeight(K) > 0
                THEN IsRoundedAverage(etfPerformance[n].value, K, d)
                ELSE etfPerformance[n].value = 100 * Scale

\* C8 witness: on the second date one holding counts at twice its initial
\* price with weight 2 and the other at its initial price with weight 1, a
\* third of the weight each way: value 166.67.
C8_Witness ==
    /\ PerfReturned /\ Len(etfPerformance) = 2 /\ Len(holdings) = 2
    /\ CountingOn(etfPerformance[2].date) = {1, 2}
    /\ holdings[1].weight # holdings[2].weight
    /\ etfPerformance[2].value = 16667

\* C8 witness: a holding without a valid initial price is left out of a date
\* on which it has a price point, and a date on which no holding counts has
\* value 100.
C8_WitnessExcluded ==
    /\ PerfReturned /\ Len(etfPerformance) = 2 /\ Len(holdings) = 2
    /\ FirstPriceOn(1, etfPerformance[1].date) = 0
    /\ FirstPriceOn(1, etfPerformance[2].date) > 0
    /\ holdings[1].weight > 0 /\ holdings[2].weight > 0
    /\ CountingOn(etfPerformance[1].date) = {2}
    /\ CountingOn(etfPerformance[2].date) = {}
    /\ etfPerformance[2].value = 100 * Scale

----------------------------------------------------------------------------
(* The first point and the length of the series *)

C12_WitnessDuplicateSymbols ==
    /\ PerfReturned /\ etfPerformance # <<>>
    /\ Len(holdings) = 2
    /\ holdings[1].symbol = holdings[2].symbol
    /\ holdings[1].weight # holdings[2].weight
    /\ CountingOn(etfPerformance[1].date) = {1, 2}
    /\ Len(etfPerformance) = 2 /\ etfPerformance[2].value = 200 * Scale

\* Every weight is zero although a holding counts on the first date.
C12_WitnessZeroWeights ==
    /\ PerfReturned /\ etfPerformance # <<>>
    /\ CountingOn(etfPerformance[1].date) # {}
    /\ \A k \in 1..Len(holdings) : holdings[k].weight = 0

\* One holding has no valid initial price (price 0 on the first date) and
\* the other counts.
C12_WitnessNoInitialPrice ==
    /\ PerfReturned /\ etfPerformance # <<>>
    /\ Len(holdings) = 2
    /\ FirstPriceOn(1, etfPerformance[1].date) = 0
    /\ HasPointOn(1, etfPerformance[1].date)
    /\ CountingOn(etfPerformance[1].date) = {2}
    /\ holdings[1].weight > 0 /\ holdings[2].weight > 0

\* Some history has a price point.
SomePricePoint == \E i \in 1..Len(priceHistories) : Len(priceHistories[i].prices) > 0

C13_WitnessNoPoint ==
    /\ PerfReturned
    /\ Len(holdings) > 0 /\ Len(priceHistories) > 0
    /\ ~SomePricePoint
    /\ etfPerformance = <<>>

----------------------------------------------------------------------------
(* Properties of parseAlphaVantageResponse *)

AvReturned == avPc = "returned"

\* The input is an object (an array is one; null is not).
InputIsObject == avData.kind \in {"object", "array"}

\* The time-series block is missing or not an object.
SeriesBlockAbsent ==
    Get(avData, "Time Series (Daily)").kind \notin {"object", "dated", "array"}

\* The metadata block is an object that gives a symbol: a non-empty string
\* or any other value that is not missing, null or empty.
GivenSymbol == Get(Get(avData, "Meta Data"), "2. Symbol")

SymbolDeterminable ==
    /\ GivenSymbol.kind \notin {"undefined", "null"}
    /\ GivenSymbol.kind = "string" => Len(GivenSymbol.text) > 0

GivenTicker ==
    IF GivenSymbol.kind = "string" THEN GivenSymbol.text ELSE <<"t", "r", "u", "e">>

NoKeyAtAll == DOMAIN avResult = {}

KeyedEmpty(ticker) == DOMAIN avResult = {ticker} /\ avResult[ticker] = <<>>

\* C11 as claimed: parseAlphaVantageResponse never raises; an input that is
\* not an object gives the empty mapping; a missing or non-object time-series
\* block gives {ticker: []} when the metadata block determines the ticker and
\* the empty mapping, without any key, when it does not.
C11_NoDataSignalled ==
    AvReturned =>
        /\ ~avRaised
        /\ ~InputIsObject => NoKeyAtAll
        /\ (InputIsObject /\ SeriesBlockAbsent) =>
               IF SymbolDeterminable THEN KeyedEmpty(GivenTicker) ELSE NoKeyAtAll

\* C11 as the code has it: parseAlphaVantageResponse never raises; an input
\* that is not an object gives the empty mapping; a missing or non-object
\* time-series block gives {ticker: []}, where ticker is the symbol of the
\* metadata block when it determines one and "UNKNOWN" when it does not.
C11_NoDataKeyedByTickerOrUnknown ==
    AvReturned =>
        /\ ~avRaised
        /\ ~InputIsObject => NoKeyAtAll
        /\ (InputIsObject /\ SeriesBlockAbsent) =>
               IF SymbolDeterminable THEN KeyedEmpty(GivenTicker)
               ELSE KeyedEmpty(<<"U", "N", "K", "N", "O", "W", "N">>)

\* An object with neither a symbol nor a time series was answered.
C11_Witness ==
    /\ AvReturned
    /\ avData.kind = "object"
    /\ SeriesBlockAbsent /\ ~SymbolDeterminable
    /\ KeyedEmpty(<<"U", "N", "K", "N", "O", "W", "N">>)

\* An object with a symbol and no time series was answered under that symbol.
C11_WitnessTicker ==
    /\ AvReturned
    /\ InputIsObject /\ SeriesBlockAbsent /\ SymbolDeterminable
    /\ KeyedEmpty(<<"A">>)

\* A date whose entry is null made the loop throw, and the empty mapping
\* was returned.
C11_WitnessCaught ==
    /\ AvReturned
    /\ InputIsObject /\ ~SeriesBlockAbsent
    /\ \E i \in 1..Len(OwnEntries(Get(avData, "Time Series (Daily)"))) :
           OwnEntries(Get(avData, "Time Series (Daily)"))[i].value.kind = "null"
    /\ NoKeyAtAll
    /\ ~avRaised

\* Two dates inserted in descending order came back in ascending order, with
\* the provider's strings parsed.
AvWitnessSorted ==
    /\ AvReturned
    /\ DOMAIN avResult = {<<"A">>}
    /\ Len(avResult[<<"A">>]) = 2
    /\ OwnEntries(Get(avData, "Time Series (Daily)"))[1].date = 2
    /\ avResult[<<"A">>][1].date = 1
    /\ avResult[<<"A">>][1].close = Num(175)
    /\ avResult[<<"A">>][1].low = Num(100)
    /\ avResult[<<"A">>][2].close = NaN

====
